---- MODULE Spec2Model ----
(***************************************************************************)
(* The persistence layer of lesbians (src/src/db.rs) with its two Row      *)
(* types, Item (src/src/item.rs) and User (src/src/user.rs): the           *)
(* identifier codec, the sled trees, the tantivy indices, and the facade   *)
(* operations save, load, query, iter, dump and restore.                   *)
(*                                                                         *)
(* Conventions.  Option<T> is a set: None is {} and Some(x) is {x}.        *)
(* Fallible<T> is a record [ok, v]: Ok(v) or Err(message).  A sled tree is *)
(* a function from byte keys (sequences of u8) to values.  Every facade    *)
(* operation is a pure operator over the store value `db`; the actions     *)
(* apply these operators.  The operand `fail` names the fallible call of   *)
(* the handler that returns an error in this run ("none": no call fails).  *)
(***************************************************************************)
EXTENDS Integers, Sequences, FiniteSets, TLC

VARIABLES
    endian,  \* byte order of the build target: to_ne_bytes depends on it
    db,      \* the Db: sled's id counter and trees, one index per Row type
    it,      \* the live Iter<T> of the caller, if any
    last,    \* the last facade call: its operands, the row after it, its result
    issued,  \* history: the identifiers generate_id has handed out, in order
    fresh,   \* history: identifiers of Items whose first save (id None) returned Ok
    calls    \* history: how many saves were called, how many returned an error,
             \* and whether this process has run a restore

vars == <<endian, db, it, last, issued, fresh, calls>>

(***************************************************************************)
(* Option and Fallible                                                     *)
(***************************************************************************)
None == {}
Some(x) == {x}
Unwrap(o) == CHOOSE x \in o : TRUE
Ok(v) == [ok |-> TRUE, v |-> v]
Err(msg) == [ok |-> FALSE, v |-> msg]

Min(a, b) == IF a < b THEN a ELSE b

Range(s) == {s[i] : i \in 1..Len(s)}

(***************************************************************************)
(* Bounds of the model                                                     *)
(***************************************************************************)
\* save is called at most this many times in one behaviour
MaxSaves == 3
\* at most this many calls of one behaviour return an injected error
MaxFaults == 1
\* a store that is opened with a history starts its id counter here
HighStart == 255
\* an Iter is polled at most this many times
MaxPolls == 5

Titles == {"a", "b"}
Names == {"x", "y"}
Barcodes == {1, 256}
Borrowers == {None, Some(256)}
BadQuery == "("
Endians == {"little", "big"}
IdgenStarts == {0, HighStart}

(***************************************************************************)
(* Identifier codec (db.rs:22-31)                                          *)
(***************************************************************************)
\* u8 holds 0..255
U8Radix == 256
\* [u8; 8]
IdLen == 8

RECURSIVE to_le_bytes(_, _)
to_le_bytes(id, n) ==
    IF n = 0 THEN <<>>
    ELSE <<id % U8Radix>> \o to_le_bytes(id \div U8Radix, n - 1)

RECURSIVE from_le_bytes(_)
from_le_bytes(b) ==
    IF b = <<>> THEN 0
    ELSE IF Tail(b) = <<>> THEN b[1]
    ELSE b[1] + U8Radix * from_le_bytes(Tail(b))

Reverse(s) == [i \in 1..Len(s) |-> s[Len(s) + 1 - i]]

\* u64::to_ne_bytes: little-endian or big-endian, as the target is
to_ne_bytes(id) ==
    IF endian = "little" THEN to_le_bytes(id, IdLen)
    ELSE Reverse(to_le_bytes(id, IdLen))

\* u64::from_ne_bytes
from_ne_bytes(b) ==
    IF endian = "little" THEN from_le_bytes(b)
    ELSE from_le_bytes(Reverse(b))

id_to_bytes_narrowed(id) == to_ne_bytes(id % U8Radix)

id_to_bytes(id) == to_ne_bytes(id)

id_to_u64_too_long(id) ==
    IF Len(id) > IdLen THEN Err("row ID is incorrect length")
    ELSE Ok(from_ne_bytes(id))

id_to_u64(id) ==
    IF Len(id) # IdLen THEN Err("row ID is incorrect length")
    ELSE Ok(from_ne_bytes(id))

(***************************************************************************)
(* sled::Tree: an ordered map from byte keys to values.  Keys compare      *)
(* lexicographically as byte strings.                                      *)
(***************************************************************************)
RECURSIVE LexLess(_, _)
LexLess(a, b) ==
    IF b = <<>> THEN FALSE
    ELSE IF a = <<>> THEN TRUE
    ELSE IF a[1] # b[1] THEN a[1] < b[1]
    ELSE LexLess(Tail(a), Tail(b))

EmptyTree == <<>>

tree_get(t, k) == IF k \in DOMAIN t THEN Some(t[k]) ELSE None

tree_set(t, k, v) == [x \in (DOMAIN t) \cup {k} |-> IF x = k THEN v ELSE t[x]]

tree_del(t, k) == [x \in (DOMAIN t) \ {k} |-> t[x]]

\* the least key of a non-empty set of keys
greatest_key(keys) == CHOOSE x \in keys : \A y \in keys : x = y \/ LexLess(y, x)

least_key(keys) == CHOOSE x \in keys : \A y \in keys : x = y \/ LexLess(x, y)

entry_at(t, keys) == IF keys = {} THEN None ELSE Some(<<least_key(keys), t[least_key(keys)]>>)

tree_get_ge(t, k) == entry_at(t, {x \in DOMAIN t : x = k \/ LexLess(k, x)})

\* the first entry whose key is strictly greater than k
tree_get_gt(t, k) == entry_at(t, {x \in DOMAIN t : LexLess(k, x)})

(***************************************************************************)
(* Row types.  An Item is [id, title, borrower]; title stands for the      *)
(* public fields that serde writes into the blob, id is #[serde(skip)],    *)
(* borrower is written only when it is Some.  A User is                    *)
(* [barcode, name, admin], all of them written.                            *)
(***************************************************************************)
RowTypes == {"Item", "User"}

TREE(T) == IF T = "Item" THEN "item" ELSE "users"

SECONDARY(T) == IF T = "Item" THEN <<"checkout">> ELSE <<>>

\* format!("{}-{}", T::TREE, secondary)
secondary_name(T, secondary) ==
    IF T = "Item" /\ secondary = "checkout" THEN "item-checkout" ELSE "users-none"

TreeNames == {"item", "users", "item-checkout"}

\* serde's encoding of an Item (CBOR in the tree, JSON in a dump): no id;
\* the borrower as the struct holds it when the encoder runs
Item_serialize(item) == [title |-> item.title, borrower |-> item.borrower]

\* serde's decoding: the skipped id is its default, None
Item_deserialize(blob) ==
    [id |-> None, title |-> blob.title, borrower |-> blob.borrower]

User_serialize(user) ==
    [barcode |-> user.barcode, name |-> user.name, admin |-> user.admin]

User_deserialize(blob) ==
    [barcode |-> blob.barcode, name |-> blob.name, admin |-> blob.admin]

\* Item::document: the id when it is Some, and the searched text
Item_document(self) == [id |-> self.id, terms |-> {self.title}]

User_document(self) == [id |-> Some(self.barcode), terms |-> {self.name}]

\* item.rs:318-321: the borrower comes from the "checkout" entry
Item_load_borrower(item, b) ==
    IF b.ok THEN Ok([item EXCEPT !.borrower = Some(b.v)]) ELSE b

Item_load_no_secondary(id, blob, secondary) ==
    Ok([Item_deserialize(blob) EXCEPT !.id = Some(id)])

\* Row::load for Item (item.rs:315-322)
Item_load(id, blob, secondary) ==
    IF "checkout" \in DOMAIN secondary
    THEN Item_load_borrower([Item_deserialize(blob) EXCEPT !.id = Some(id)],
                            id_to_u64(secondary["checkout"]))
    ELSE Ok([Item_deserialize(blob) EXCEPT !.id = Some(id)])

User_ensure_skipped(id, user) == Ok(user)

\* user.rs:77
User_ensure(id, user) ==
    IF id = user.barcode THEN Ok(user) ELSE Err("id and barcode do not match")

\* Row::load for User (user.rs:75-79)
User_load(id, blob, secondary) == User_ensure(id, User_deserialize(blob))

Row_load(T, id, blob, secondary) ==
    IF T = "Item" THEN Item_load(id, blob, secondary)
    ELSE User_load(id, blob, secondary)

generate_id_no_advance(idgen, fail) ==
    IF fail = "generate_id" THEN [idgen |-> idgen, res |-> Err("sled")]
    ELSE [idgen |-> idgen, res |-> Ok(idgen)]

\* sled's generate_id: the counter's value, and the counter moves on
generate_id(idgen, fail) ==
    IF fail = "generate_id" THEN [idgen |-> idgen, res |-> Err("sled")]
    ELSE [idgen |-> idgen + 1, res |-> Ok(idgen)]

\* the closure Db::save hands to Row::save (db.rs:170-173)
id_gen_always_new(id_opt, idgen, fail) == generate_id(idgen, fail)

id_gen(id_opt, idgen, fail) ==
    IF id_opt # None THEN [idgen |-> idgen, res |-> Ok(Unwrap(id_opt))]
    ELSE generate_id(idgen, fail)

SaveData_new(id, blob) ==
    [id |-> id, blob |-> blob, index |-> None, secondary |-> <<>>]

SaveData_index(self, document) == [self EXCEPT !.index = Some(document)]

SaveData_secondary(self, tree_name, blob) ==
    [self EXCEPT !.secondary =
        [n \in (DOMAIN @) \cup {tree_name} |-> IF n = tree_name THEN blob ELSE @[n]]]

\* item.rs:335-339: the SaveData of an Item whose blob is written
Item_save_data(self, id, blob) ==
    IF self.borrower # None
    THEN SaveData_secondary(SaveData_index(SaveData_new(id, blob), Item_document(self)),
                            "checkout", id_to_bytes(Unwrap(self.borrower)))
    ELSE SaveData_index(SaveData_new(id, blob), Item_document(self))

Item_encode_keeping_borrower(self, old_borrower, fail) ==
    IF fail = "cbor" THEN Err("cbor")
    ELSE Ok(Item_serialize([self EXCEPT !.borrower = old_borrower]))

\* item.rs:331-332: the borrower is taken out (self.borrower is None here),
\* and the row is encoded
Item_encode(self, old_borrower, fail) ==
    IF fail = "cbor" THEN Err("cbor") ELSE Ok(Item_serialize(self))

\* item.rs:333-339: the borrower is put back; `cbor?` returns the error
Item_save_encoded(self, idgen, id, cbor) ==
    [row |-> self, idgen |-> idgen,
     res |-> IF cbor.ok THEN Ok(Item_save_data(self, id, cbor.v)) ELSE cbor]

\* item.rs:329-333: self.id = Some(id), then the encoding without borrower
Item_save_id(self, idgen, id, fail) ==
    Item_save_encoded([self EXCEPT !.id = Some(id)], idgen, id,
                      Item_encode([self EXCEPT !.id = Some(id), !.borrower = None],
                                  self.borrower, fail))

\* item.rs:328: `id_gen(self.id)?`
Item_save_gen(self, g, fail) ==
    IF g.res.ok THEN Item_save_id(self, g.idgen, g.res.v, fail)
    ELSE [row |-> self, idgen |-> g.idgen, res |-> g.res]

\* Row::save for Item (item.rs:324-340): [row, idgen, res]
Item_save(self, idgen, fail) == Item_save_gen(self, id_gen(self.id, idgen, fail), fail)

\* Row::save for User (user.rs:81-87)
User_save(self, idgen, fail) ==
    IF fail = "cbor" THEN [row |-> self, idgen |-> idgen, res |-> Err("cbor")]
    ELSE [row |-> self, idgen |-> idgen,
          res |-> Ok(SaveData_index(SaveData_new(self.barcode, User_serialize(self)),
                                    User_document(self)))]

Row_save(T, row, idgen, fail) ==
    IF T = "Item" THEN Item_save(row, idgen, fail) ELSE User_save(row, idgen, fail)

(***************************************************************************)
(* tantivy: per Row type the committed documents (what a new reader sees)  *)
(* and the writer's operations that are not committed yet.  A delete       *)
(* removes the documents added before it whose id field holds the term.    *)
(***************************************************************************)
EmptyIndex == [committed |-> <<>>, pending |-> <<>>]

delete_term(docs, id) == SelectSeq(docs, LAMBDA d : id \notin d.id)

RECURSIVE apply_ops_add_first(_, _)
apply_ops_add_first(docs, ops) ==
    IF ops = <<>> THEN docs
    ELSE apply_ops_add_first(delete_term(Append(docs, Head(ops).add), Head(ops).del),
                             Tail(ops))

RECURSIVE apply_ops(_, _)
apply_ops(docs, ops) ==
    IF ops = <<>> THEN docs
    ELSE apply_ops(Append(delete_term(docs, Head(ops).del), Head(ops).add), Tail(ops))

writer_replace_no_delete(index, id, document) ==
    [index EXCEPT !.pending = Append(@, [del |-> -1, add |-> document])]

\* delete_term and add_document queue their operation in the writer
\* (an operation on the same id that is still queued is superseded: its
\* document would be deleted by this delete when both are published)
writer_replace(index, id, document) ==
    [index EXCEPT !.pending =
        Append(SelectSeq(@, LAMBDA op : op.del # id), [del |-> id, add |-> document])]

\* IndexWriter::commit publishes every queued operation
writer_commit(index) ==
    [committed |-> apply_ops(index.committed, index.pending), pending |-> <<>>]

(***************************************************************************)
(* Db (db.rs:101-261)                                                      *)
(***************************************************************************)
\* Db::open_memory: an empty store; sled's counter starts at `idgen`
open_db(idgen) ==
    [idgen |-> idgen,
     sled |-> [n \in TreeNames |-> EmptyTree],
     indices |-> [T \in RowTypes |-> EmptyIndex]]

save_secondary_no_del(sled, T, tree_name, id_bytes, secondary) ==
    IF tree_name \in DOMAIN secondary
    THEN [sled EXCEPT ![secondary_name(T, tree_name)] =
            tree_set(@, id_bytes, secondary[tree_name])]
    ELSE sled

\* the body of the secondary loop of Db::save (db.rs:185-189)
save_secondary(sled, T, tree_name, id_bytes, secondary) ==
    IF tree_name \in DOMAIN secondary
    THEN [sled EXCEPT ![secondary_name(T, tree_name)] =
            tree_set(@, id_bytes, secondary[tree_name])]
    ELSE [sled EXCEPT ![secondary_name(T, tree_name)] = tree_del(@, id_bytes)]

RECURSIVE save_secondaries(_, _, _, _, _)
save_secondaries(sled, T, names, id_bytes, secondary) ==
    IF names = <<>> THEN sled
    ELSE save_secondaries(save_secondary(sled, T, Head(names), id_bytes, secondary),
                          T, Tail(names), id_bytes, secondary)

\* the calls of Db::save that can return an error, in the order they run
SaveFails(T, row) ==
    {"none", "open_tree", "cbor", "set", "prepare_commit", "commit"}
    \cup (IF T = "Item" /\ row.id = None THEN {"generate_id"} ELSE {})
    \cup (IF SECONDARY(T) # <<>> THEN {"secondary"} ELSE {})

\* db.rs:184-191: the secondary tables, then Ok(())
save_secondary_step(d, T, row, save_data, fail) ==
    IF SECONDARY(T) # <<>> /\ fail = "secondary"
    THEN [db |-> d, row |-> row, res |-> Err("secondary")]
    ELSE [db |-> [d EXCEPT !.sled = save_secondaries(@, T, SECONDARY(T),
                                                     id_to_bytes(save_data.id),
                                                     save_data.secondary)],
          row |-> row, res |-> Ok("unit")]

save_index_step_rollback(d, T, row, save_data, fail) ==
    IF save_data.index = None THEN save_secondary_step(d, T, row, save_data, fail)
    ELSE IF fail \in {"prepare_commit", "commit"}
    THEN [db |-> [d EXCEPT !.sled[TREE(T)] = tree_del(@, id_to_bytes(save_data.id))],
          row |-> row, res |-> Err(fail)]
    ELSE save_secondary_step(
            [d EXCEPT !.indices[T] =
                writer_commit(writer_replace(@, save_data.id, Unwrap(save_data.index)))],
            T, row, save_data, fail)

\* db.rs:176-183: prepare_commit, delete_term, add_document, commit
save_index_step(d, T, row, save_data, fail) ==
    IF save_data.index = None THEN save_secondary_step(d, T, row, save_data, fail)
    ELSE IF fail = "prepare_commit"
    THEN [db |-> d, row |-> row, res |-> Err("prepare_commit")]
    ELSE IF fail = "commit"
    THEN [db |-> [d EXCEPT !.indices[T] =
                    writer_replace(@, save_data.id, Unwrap(save_data.index))],
          row |-> row, res |-> Err("commit")]
    ELSE save_secondary_step(
            [d EXCEPT !.indices[T] =
                writer_commit(writer_replace(@, save_data.id, Unwrap(save_data.index)))],
            T, row, save_data, fail)

save_primary_step_ignoring_error(d, T, row, save_data, fail) ==
    IF fail = "set" THEN save_index_step(d, T, row, save_data, "none")
    ELSE save_index_step(
            [d EXCEPT !.sled[TREE(T)] =
                tree_set(@, id_to_bytes(save_data.id), save_data.blob)],
            T, row, save_data, fail)

\* db.rs:174-175: tree.set(id_bytes, save_data.blob)?
save_primary_step(d, T, row, save_data, fail) ==
    IF fail = "set" THEN [db |-> d, row |-> row, res |-> Err("set")]
    ELSE save_index_step(
            [d EXCEPT !.sled[TREE(T)] =
                tree_set(@, id_to_bytes(save_data.id), save_data.blob)],
            T, row, save_data, fail)

\* db.rs:170-173: `row.save(..)?`; the counter has moved if an id was generated
save_row_step(d, T, s, fail) ==
    IF s.res.ok
    THEN save_primary_step([d EXCEPT !.idgen = s.idgen], T, s.row, s.res.v, fail)
    ELSE [db |-> [d EXCEPT !.idgen = s.idgen], row |-> s.row, res |-> s.res]

\* Db::save (db.rs:165-192): [db, row, res]
Db_save(d, T, row, fail) ==
    IF fail = "open_tree" THEN [db |-> d, row |-> row, res |-> Err("open_tree")]
    ELSE save_row_step(d, T, Row_save(T, row, d.idgen, fail), fail)

\* the secondary entries Db::load and Iter::next collect for a key
secondary_insert(map, tree_name, v) ==
    IF v = None THEN map
    ELSE [n \in (DOMAIN map) \cup {tree_name} |->
             IF n = tree_name THEN Unwrap(v) ELSE map[n]]

RECURSIVE collect_secondary(_, _, _, _)
collect_secondary(sled, T, names, key) ==
    IF names = <<>> THEN <<>>
    ELSE secondary_insert(collect_secondary(sled, T, Tail(names), key), Head(names),
                          tree_get(sled[secondary_name(T, Head(names))], key))

\* db.rs:159: Some(T::load(id, &value, map)?)
load_row(row) == IF row.ok THEN Ok(Some(row.v)) ELSE row

load_value_needs_secondary(d, T, id, value) ==
    IF value = None THEN Ok(None)
    ELSE IF DOMAIN collect_secondary(d.sled, T, SECONDARY(T), id_to_bytes(id)) # Range(SECONDARY(T))
    THEN Ok(None)
    ELSE load_row(Row_load(T, id, Unwrap(value),
                           collect_secondary(d.sled, T, SECONDARY(T), id_to_bytes(id))))

\* db.rs:150-162: the match on tree.get
load_value(d, T, id, value) ==
    IF value = None THEN Ok(None)
    ELSE load_row(Row_load(T, id, Unwrap(value),
                           collect_secondary(d.sled, T, SECONDARY(T), id_to_bytes(id))))

\* Db::load (db.rs:148-163): Fallible<Option<T>>
Db_load(d, T, id, fail) ==
    IF fail # "none" THEN Err(fail)
    ELSE load_value(d, T, id, tree_get(d.sled[TREE(T)], id_to_bytes(id)))

\* TopDocs::with_limit(10)
QueryLimit == 10

\* QueryParser::parse_query
parse_query(query) == IF query = BadQuery THEN Err("parse") ELSE Ok(query)

first_n_unlimited(hits, n) == hits

\* Searcher::search: the matching committed documents, at most the limit
first_n(hits, n) == SubSeq(hits, 1, Min(Len(hits), n))

search(index, term) ==
    first_n(SelectSeq(index.committed, LAMBDA doc : term \in doc.terms), QueryLimit)

\* db.rs:218-221: the loaded row is pushed; no row is an error
RECURSIVE query_docs(_, _, _, _)
query_push_skip_missing(d, T, top_docs, docs, row) ==
    IF ~row.ok THEN row
    ELSE IF row.v = None THEN query_docs(d, T, Tail(top_docs), docs)
    ELSE query_docs(d, T, Tail(top_docs), Append(docs, Unwrap(row.v)))

query_push(d, T, top_docs, docs, row) ==
    IF ~row.ok THEN row
    ELSE IF row.v = None THEN Err("failed to find row")
    ELSE query_docs(d, T, Tail(top_docs), Append(docs, Unwrap(row.v)))

\* the loop of Db::query over the hits (db.rs:212-222)
query_docs(d, T, top_docs, docs) ==
    IF top_docs = <<>> THEN Ok(docs)
    ELSE IF Head(top_docs).id = None THEN Err("document missing id field")
    ELSE query_push(d, T, top_docs, docs,
                    Db_load(d, T, Unwrap(Head(top_docs).id), "none"))

\* db.rs:205-210: the parsed query is searched
query_parsed(d, T, q) ==
    IF ~q.ok THEN q ELSE query_docs(d, T, search(d.indices[T], q.v), <<>>)

\* Db::query (db.rs:194-225): Fallible<Vec<T>>
Db_query(d, T, query, fail) ==
    IF fail # "none" THEN Err(fail) ELSE query_parsed(d, T, parse_query(query))

(***************************************************************************)
(* Iter (db.rs:287-341)                                                    *)
(***************************************************************************)
Iter_new(T) == [T |-> T, last_key |-> <<>>, done |-> FALSE]

\* db.rs:328: Some(id.and_then(|id| T::load(id, &value, secondary)))
next_load(T, id, value, secondary) ==
    IF id.ok THEN Row_load(T, id.v, value, secondary) ELSE id

next_entry_no_secondary(d, self, key, value, fail) ==
    IF SECONDARY(self.T) # <<>> /\ fail = "secondary"
    THEN [it |-> self, item |-> Some(Err("secondary")), key |-> None]
    ELSE [it |-> [self EXCEPT !.last_key = key],
          item |-> Some(next_load(self.T, id_to_u64(key), value, <<>>)),
          key |-> Some(key)]

\* db.rs:315-329: the entry after last_key
next_entry(d, self, key, value, fail) ==
    IF SECONDARY(self.T) # <<>> /\ fail = "secondary"
    THEN [it |-> self, item |-> Some(Err("secondary")), key |-> None]
    ELSE [it |-> [self EXCEPT !.last_key = key],
          item |-> Some(next_load(self.T, id_to_u64(key), value,
                                  collect_secondary(d.sled, self.T, SECONDARY(self.T), key))),
          key |-> Some(key)]

\* db.rs:314-338: the match on tree.get_gt
next_match(d, self, e, fail) ==
    IF e = None THEN [it |-> [self EXCEPT !.done = TRUE], item |-> None, key |-> None]
    ELSE next_entry(d, self, Unwrap(e)[1], Unwrap(e)[2], fail)

\* Iter::next: [it, item, key]; item is Option<Fallible<T>>, key the key read
Iter_next(d, self, fail) ==
    IF self.done THEN [it |-> self, item |-> None, key |-> None]
    ELSE IF fail = "get_gt"
    THEN [it |-> [self EXCEPT !.done = TRUE], item |-> Some(Err("get_gt")), key |-> None]
    ELSE next_match(d, self, tree_get_gt(d.sled[TREE(self.T)], self.last_key), fail)

\* the calls of Iter::next that can return an error
NextFails(T) ==
    {"none", "get_gt"} \cup (IF SECONDARY(T) # <<>> THEN {"secondary"} ELSE {})

\* db.iter::<T>()? collected into a Vec: what a full iteration yields
RECURSIVE iter_collect(_, _, _)
iter_collect_item(d, n, out) ==
    IF n.item = None THEN out ELSE iter_collect(d, n.it, Append(out, Unwrap(n.item)))

iter_collect(d, self, out) == iter_collect_item(d, Iter_next(d, self, "none"), out)

iter_rows(d, T) == iter_collect(d, Iter_new(T), <<>>)

(***************************************************************************)
(* dump and restore (db.rs:235-285)                                        *)
(***************************************************************************)
\* serde_json of a DumpRow: the tag and the row's serde encoding
DumpRow_to_json(T, row) ==
    [tag |-> T, data |-> IF T = "Item" THEN Item_serialize(row) ELSE User_serialize(row)]

DumpRow_from_json(line) ==
    IF line.tag = "Item" THEN Item_deserialize(line.data) ELSE User_deserialize(line.data)

\* one Iter drained by dump's loop (db.rs:244-247): the first error ends it
RECURSIVE drain(_, _, _)
drain_item(d, T, n, out) ==
    IF n.item = None THEN Ok(out)
    ELSE IF ~Unwrap(n.item).ok THEN Unwrap(n.item)
    ELSE drain(d, n.it, Append(out, DumpRow_to_json(T, Unwrap(n.item).v)))

drain(d, self, out) == drain_item(d, self.T, Iter_next(d, self, "none"), out)

dump_items_only(d, items) == items

\* db.rs:235-240: the Items, then the Users
dump_users(d, items) == IF ~items.ok THEN items ELSE drain(d, Iter_new("User"), items.v)

\* Db::dump over Db::iter_all
Db_dump(d, fail) ==
    IF fail # "none" THEN Err(fail)
    ELSE dump_users(d, drain(d, Iter_new("Item"), <<>>))

\* serde_json accepts a line as a DumpRow when its tag names a variant and
\* its data holds the fields that have no default
RequiredFields(tag) == IF tag = "Item" THEN {"title"} ELSE {"barcode", "name"}

well_formed(line) ==
    line.tag \in RowTypes /\ RequiredFields(line.tag) \subseteq DOMAIN line.data

\* Db::restore (db.rs:251-260): [db, res]; a line that is no DumpRow, or a
\* save that fails, ends it with the error
RECURSIVE Db_restore(_, _)
restore_saved(s, stream) ==
    IF ~s.res.ok THEN [db |-> s.db, res |-> s.res] ELSE Db_restore(s.db, Tail(stream))

restore_row_skip_malformed(d, stream) ==
    IF ~well_formed(Head(stream)) THEN Db_restore(d, Tail(stream))
    ELSE restore_saved(Db_save(d, Head(stream).tag, DumpRow_from_json(Head(stream)), "none"),
                       stream)

restore_row_unindexed(d, stream) ==
    IF ~well_formed(Head(stream)) THEN [db |-> d, res |-> Err("json")]
    ELSE restore_saved(
            [db |-> [Db_save(d, Head(stream).tag, DumpRow_from_json(Head(stream)), "none").db
                        EXCEPT !.indices = d.indices],
             res |-> Db_save(d, Head(stream).tag, DumpRow_from_json(Head(stream)), "none").res],
            stream)

\* db.rs:254-257: `row?`, then the save of the row
restore_row(d, stream) ==
    IF ~well_formed(Head(stream)) THEN [db |-> d, res |-> Err("json")]
    ELSE restore_saved(Db_save(d, Head(stream).tag, DumpRow_from_json(Head(stream)), "none"),
                       stream)

Db_restore(d, stream) ==
    IF stream = <<>> THEN [db |-> d, res |-> Ok("unit")] ELSE restore_row(d, stream)

(***************************************************************************)
(* The facade as a state machine                                           *)
(***************************************************************************)
\* Item.id is private to item.rs: a caller's Item has no id, or an id that
\* a save has put into it
ItemRows ==
    [id : {None} \cup {Some(i) : i \in Range(issued)}, title : Titles, borrower : Borrowers]

UserRows == [barcode : Barcodes, name : Names, admin : BOOLEAN]

Rows(T) == IF T = "Item" THEN ItemRows ELSE UserRows

\* the identifier a row is stored under
RowId(T, row) == IF T = "Item" THEN Unwrap(row.id) ELSE row.barcode

LoadIds(T) == IF T = "Item" THEN Range(issued) \cup {0} ELSE Barcodes \cup {0}

QueryStrings(T) == IF T = "Item" THEN Titles \cup {BadQuery} ELSE Names \cup {BadQuery}

NoIter == None

NoCalls == [saves |-> 0, faults |-> 0, restored |-> FALSE]

Init ==
    /\ endian \in Endians
    /\ \E start \in IdgenStarts : db = open_db(start)
    /\ it = NoIter
    /\ last = [op |-> "open"]
    /\ issued = <<>>
    /\ fresh = <<>>
    /\ calls = NoCalls

\* the effect of a save that returned s
Saved(T, row, fail, s) ==
    /\ db' = s.db
    /\ last' = [op |-> "save", T |-> T, arg |-> row, row |-> s.row,
                fail |-> fail, res |-> s.res, before |-> db]
    /\ issued' = IF s.db.idgen # db.idgen THEN Append(issued, db.idgen) ELSE issued
    /\ fresh' = IF T = "Item" /\ row.id = None /\ s.res.ok
                THEN Append(fresh, Unwrap(s.row.id)) ELSE fresh
    /\ calls' = [calls EXCEPT !.saves = @ + 1,
                               !.faults = @ + (IF fail = "none" THEN 0 ELSE 1)]
    /\ it' = IF it # NoIter /\ s.db.sled # db.sled
             THEN {[i EXCEPT !.dirty = TRUE] : i \in it} ELSE it
    /\ UNCHANGED endian

\* db.save(&mut row)
Save(T, row, fail) ==
    /\ row \in Rows(T)
    /\ fail \in SaveFails(T, row)
    /\ calls.saves < MaxSaves
    /\ fail # "none" => calls.faults < MaxFaults
    /\ Saved(T, row, fail, Db_save(db, T, row, fail))

\* db.load::<T>(id)
Load(T, id, fail) ==
    /\ id \in LoadIds(T)
    /\ last' = [op |-> "load", T |-> T, id |-> id, fail |-> fail,
                res |-> Db_load(db, T, id, fail)]
    /\ UNCHANGED <<endian, db, it, issued, fresh, calls>>

Query_publishing(T, query, fail) ==
    /\ query \in QueryStrings(T)
    /\ last' = [op |-> "query", T |-> T, query |-> query, fail |-> fail,
                hits |-> IF query = BadQuery THEN <<>> ELSE search(db.indices[T], query),
                res |-> Db_query(db, T, query, fail)]
    /\ db' = [db EXCEPT !.indices[T] = writer_commit(@)]
    /\ UNCHANGED <<endian, it, issued, fresh, calls>>

\* db.query::<T>(query)
Query(T, query, fail) ==
    /\ query \in QueryStrings(T)
    /\ last' = [op |-> "query", T |-> T, query |-> query, fail |-> fail,
                hits |-> IF query = BadQuery THEN <<>> ELSE search(db.indices[T], query),
                res |-> Db_query(db, T, query, fail)]
    /\ UNCHANGED <<endian, db, it, issued, fresh, calls>>

\* db.iter::<T>(): the caller keeps one Iter; out, dirty, erred, ended and
\* polls are history of that Iter
Iter(T) ==
    /\ it' = Some([iter |-> Iter_new(T), out |-> <<>>, dirty |-> FALSE,
                   erred |-> FALSE, ended |-> FALSE, polls |-> 0])
    /\ last' = [op |-> "iter", T |-> T]
    /\ UNCHANGED <<endian, db, issued, fresh, calls>>

\* the effect of a poll that returned n
Polled(i, fail, n) ==
    /\ it' = Some([i EXCEPT
                      !.iter = n.it,
                      !.out = IF n.key # None
                              THEN Append(@, [key |-> Unwrap(n.key), item |-> Unwrap(n.item)])
                              ELSE @,
                      !.erred = (@ \/ (n.item # None /\ n.key = None)),
                      !.ended = (n.item = None),
                      !.polls = @ + 1])
    /\ last' = [op |-> "next", T |-> i.iter.T, fail |-> fail, item |-> n.item,
                erred_before |-> i.erred]
    /\ UNCHANGED <<endian, db, issued, fresh, calls>>

\* iter.next()
Next_(fail) ==
    /\ it # NoIter
    /\ \E i \in it :
          /\ i.polls < MaxPolls
          /\ fail \in NextFails(i.iter.T)
          /\ Polled(i, fail, Iter_next(db, i.iter, fail))

\* db.dump(writer)
Dump(fail) ==
    /\ last' = [op |-> "dump", fail |-> fail, res |-> Db_dump(db, fail)]
    /\ UNCHANGED <<endian, db, it, issued, fresh, calls>>

\* the effect of a restore that returned r
Restored(stream, r) ==
    /\ last' = [op |-> "restore_copy", stream |-> stream, res |-> r.res, copy |-> r.db]
    /\ UNCHANGED <<endian, db, it, issued, fresh, calls>>

\* the dump just written is restored into a new, empty store (main.rs:47-48)
RestoreCopy ==
    /\ last.op = "dump"
    /\ last.res.ok
    /\ Restored(last.res.v, Db_restore(open_db(0), last.res.v))

(***************************************************************************)
(* Spec: save, load and query on a store whose calls all succeed.          *)
(***************************************************************************)
Next ==
    \/ \E T \in RowTypes : \E row \in Rows(T) : Save(T, row, "none")
    \/ \E T \in RowTypes : \E id \in LoadIds(T) : Load(T, id, "none")
    \/ \E T \in RowTypes : \E query \in QueryStrings(T) : Query(T, query, "none")

Spec == Init /\ [][Next]_vars

(***************************************************************************)
(* SpecFault: the same, and any fallible call of a save may fail.          *)
(***************************************************************************)
\* save is called at most this many times in a behaviour of SpecFault
MaxFaultSaves == 2

\* the rows saved in SpecFault: every Item, and one User
FaultRows(T) ==
    IF T = "Item" THEN ItemRows
    ELSE {row \in UserRows : row.barcode = 1 /\ row.name = "x" /\ ~row.admin}

NextFault ==
    \/ \E T \in RowTypes : \E row \in FaultRows(T) : \E fail \in SaveFails(T, row) :
          calls.saves < MaxFaultSaves /\ Save(T, row, fail)
    \/ \E T \in RowTypes : \E id \in LoadIds(T) : Load(T, id, "none")
    \/ \E T \in RowTypes : \E query \in QueryStrings(T) : Query(T, query, "none")

SpecFault == Init /\ [][NextFault]_vars

(***************************************************************************)
(* SpecIter: saves interleaved with the polls of one Iter.                 *)
(***************************************************************************)
\* the rows saved in SpecIter: the order of iteration depends on the keys alone
IterRows(T) ==
    IF T = "Item" THEN {row \in ItemRows : row.title = "a"}
    ELSE {row \in UserRows : row.name = "x" /\ ~row.admin}

NextIter ==
    \/ \E T \in RowTypes : \E row \in IterRows(T) : Save(T, row, "none")
    \/ \E T \in RowTypes : Iter(T)
    \/ \E fail \in {"none", "get_gt", "secondary"} : Next_(fail)

SpecIter == Init /\ [][NextIter]_vars

(***************************************************************************)
(* SpecDump: saves (a save may fail after its identifier was generated),   *)
(* dump, and the restore of the dump into an empty store.                  *)
(***************************************************************************)
NextDump ==
    \/ \E T \in RowTypes : \E row \in Rows(T) : \E fail \in {"none", "set"} :
          Save(T, row, fail)
    \/ \E fail \in {"none", "sled"} : Dump(fail)
    \/ RestoreCopy

SpecDump == Init /\ [][NextDump]_vars

(***************************************************************************)
(* SpecCodec: the identifier codec applied to sample identifiers and keys. *)
(***************************************************************************)
IdSamples == {0, 1, 2, 255, 256, 257, 65535, 65536}

ByteSamples == {0, 1, 255}

\* 8-byte keys whose identifier is below 2^16 on the target: the two
\* low-order bytes are free, the six high-order bytes are zero
KeySamples ==
    {k \in [1..IdLen -> ByteSamples] :
        \A n \in 1..IdLen :
            (IF endian = "little" THEN n > 2 ELSE n < IdLen - 1) => k[n] = 0}

\* keys of another length
ShortKeys == {<<>>, <<1>>, <<0, 0, 0, 0, 0, 0, 0, 0, 0>>}

\* id_to_bytes(a), id_to_bytes(b), and a decoded again
Encode(a, b) ==
    /\ last' = [op |-> "encode", a |-> a, b |-> b,
                a_bytes |-> id_to_bytes(a), b_bytes |-> id_to_bytes(b),
                a_back |-> id_to_u64(id_to_bytes(a))]
    /\ UNCHANGED <<endian, db, it, issued, fresh, calls>>

\* the effect of a decoding that returned res
Decoded(key, res) ==
    /\ last' = [op |-> "decode", key |-> key, res |-> res,
                back |-> IF res.ok THEN Some(id_to_bytes(res.v)) ELSE None]
    /\ UNCHANGED <<endian, db, it, issued, fresh, calls>>

\* id_to_u64(key), and the identifier encoded again
Decode(key) == Decoded(key, id_to_u64(key))

NextCodec ==
    \/ \E a \in IdSamples : \E b \in IdSamples : Encode(a, b)
    \/ \E key \in KeySamples \cup ShortKeys : Decode(key)

SpecCodec == Init /\ [][NextCodec]_vars

(***************************************************************************)
(* SpecDrift: Db::open (db.rs:107-122) opens a sled store and tantivy      *)
(* indices that are persisted independently.  The store opened here was    *)
(* written by earlier saves, and sled has lost some of its primary         *)
(* entries (writes that were not flushed), while the indices kept theirs.  *)
(***************************************************************************)
\* the streams of rows an earlier process saved
DriftStreams ==
    {<<DumpRow_to_json("Item", [id |-> None, title |-> t1, borrower |-> None]),
       DumpRow_to_json("Item", [id |-> None, title |-> t2, borrower |-> b]),
       DumpRow_to_json("User", [barcode |-> 1, name |-> "x", admin |-> FALSE])>> :
        t1 \in Titles, t2 \in Titles, b \in Borrowers}

\* the store d after sled has lost the primary entries that are not in keep
lose_primary(d, T, keep) ==
    [d EXCEPT !.sled[TREE(T)] = [k \in (DOMAIN @) \cap keep |-> @[k]]]

InitDrift ==
    /\ endian \in Endians
    /\ \E stream \in DriftStreams :
       \E keep \in SUBSET {id_to_bytes(0), id_to_bytes(1)} :
          db = lose_primary(Db_restore(open_db(0), stream).db, "Item", keep)
    /\ it = NoIter
    /\ last = [op |-> "open"]
    /\ issued = <<0, 1>>
    /\ fresh = <<>>
    /\ calls = NoCalls

MaxDriftSaves == 1

NextDrift ==
    \/ /\ calls.saves < MaxDriftSaves
       /\ \E T \in RowTypes : \E row \in IterRows(T) : Save(T, row, "none")
    \/ \E T \in RowTypes : \E id \in LoadIds(T) : Load(T, id, "none")
    \/ \E T \in RowTypes : \E query \in QueryStrings(T) : Query(T, query, "none")

SpecDrift == InitDrift /\ [][NextDrift]_vars

(***************************************************************************)
(* SpecRestore: the restore subcommand (main.rs:48): one process opens the *)
(* store, restores one input stream into it, and exits.                    *)
(***************************************************************************)
\* the store holds at most this many saved rows when the restore starts
MaxRestoreSaves == 1
\* the input stream has at most this many lines
MaxLines == 3

\* lines of an input stream: three DumpRows, a line with an unknown tag, and
\* a User record without its barcode
RestoreLines ==
    {DumpRow_to_json("Item", [id |-> None, title |-> "a", borrower |-> None]),
     DumpRow_to_json("Item", [id |-> None, title |-> "b", borrower |-> Some(256)]),
     DumpRow_to_json("User", [barcode |-> 256, name |-> "x", admin |-> FALSE]),
     [tag |-> "Bogus", data |-> [title |-> "a"]],
     [tag |-> "User", data |-> [name |-> "x", admin |-> FALSE]]}

RestoreStreams == UNION {[1..n -> RestoreLines] : n \in 0..MaxLines}

\* the identifiers from..(to - 1), in order
RECURSIVE id_range(_, _)
id_range(from, to) == IF from >= to THEN <<>> ELSE <<from>> \o id_range(from + 1, to)

\* the effect of a restore that returned r
RestoredInto(stream, r) ==
    /\ db' = r.db
    /\ last' = [op |-> "restore", stream |-> stream, res |-> r.res, before |-> db]
    /\ issued' = issued \o id_range(db.idgen, r.db.idgen)
    /\ calls' = [calls EXCEPT !.restored = TRUE]
    /\ UNCHANGED <<endian, it, fresh>>

\* db.restore(reader)
Restore(stream) ==
    /\ ~calls.restored
    /\ RestoredInto(stream, Db_restore(db, stream))

NextRestore ==
    \/ /\ calls.saves < MaxRestoreSaves
       /\ ~calls.restored
       /\ \E T \in RowTypes : \E row \in IterRows(T) : Save(T, row, "none")
    \/ \E stream \in RestoreStreams : Restore(stream)

SpecRestore == Init /\ [][NextRestore]_vars

(***************************************************************************)
(* SpecBulk: many Items with one title are saved, and queried.             *)
(***************************************************************************)
\* save is called at most this many times in a behaviour of SpecBulk
MaxBulkSaves == 12

\* db.save(&mut item) of a new Item, beyond MaxSaves
BulkSave(row) ==
    /\ calls.saves < MaxBulkSaves
    /\ Saved("Item", row, "none", Db_save(db, "Item", row, "none"))

NextBulk ==
    \/ BulkSave([id |-> None, title |-> "a", borrower |-> None])
    \/ \E T \in RowTypes : \E query \in QueryStrings(T) : Query(T, query, "none")

SpecBulk == Init /\ [][NextBulk]_vars

(***************************************************************************)
(* SpecLoad: saves and loads, and Row::load applied to sample blobs.       *)
(***************************************************************************)
\* save is called at most this many times in a behaviour of SpecLoad
MaxLoadSaves == 2

\* the identifiers, blobs and secondary entries Row::load is applied to
LoadSampleIds == {0, 1, 256}

LoadBlobs(T) ==
    IF T = "Item" THEN [title : Titles, borrower : {None}]
    ELSE [barcode : Barcodes, name : {"x"}, admin : BOOLEAN]

LoadSecondaries(T) ==
    IF T = "Item"
    THEN {<<>>, [n \in {"checkout"} |-> id_to_bytes(256)], [n \in {"checkout"} |-> <<1>>]}
    ELSE {<<>>}

\* T::load(id, &blob, secondary)
RowLoad(T, id, blob, secondary) ==
    /\ last' = [op |-> "row_load", T |-> T, id |-> id, blob |-> blob,
                secondary |-> secondary, res |-> Row_load(T, id, blob, secondary)]
    /\ UNCHANGED <<endian, db, it, issued, fresh, calls>>

NextLoad ==
    \/ /\ calls.saves < MaxLoadSaves
       /\ \E T \in RowTypes : \E row \in IterRows(T) : Save(T, row, "none")
    \/ \E T \in RowTypes : \E id \in LoadIds(T) : Load(T, id, "none")
    \/ \E T \in RowTypes : \E id \in LoadSampleIds : \E blob \in LoadBlobs(T) :
          \E secondary \in LoadSecondaries(T) : RowLoad(T, id, blob, secondary)

SpecLoad == Init /\ [][NextLoad]_vars

(***************************************************************************)
(* ISBN conversion (isbn.rs).  A string is the sequence of its bytes.      *)
(***************************************************************************)
\* b'0', b'X', '-' and 'a'
Ascii0 == 48
AsciiX == 88
AsciiHyphen == 45
AsciiLowerA == 97

is_ascii_digit(b) == b \in Ascii0..(Ascii0 + 9)

KeepByte(b) == b # AsciiHyphen

\* s.replace('-', "").into_bytes()
remove_hyphens(s) == SelectSeq(s, KeepByte)

\* a function that returned v, and a function that panicked
Returned(v) == [panicked |-> FALSE, v |-> v]
Panicked == [panicked |-> TRUE, v |-> None]

\* isbn.rs:18-23: the digits of isbn13[from..12] times 1 (even index) or 3
\* (odd index), summed in a u8; the sum is 209 at most
RECURSIVE isbn13_sum(_, _)
isbn13_sum(isbn13, from) ==
    IF from > 12 THEN 0
    ELSE ((isbn13[from] - Ascii0) * (IF (from - 1) % 2 = 0 THEN 1 ELSE 3)
             + isbn13_sum(isbn13, from + 1)) % U8Radix

\* isbn.rs:24
isbn13_check(sum) == (10 - (sum % 10)) + Ascii0

\* isbn.rs:14-26: "978", the nine digits, and the check byte
isbn13_of(body) ==
    Some(<<Ascii0 + 9, Ascii0 + 7, Ascii0 + 8>> \o body
            \o <<isbn13_check(isbn13_sum(<<Ascii0 + 9, Ascii0 + 7, Ascii0 + 8>> \o body, 1))>>)

\* isbn.rs:7-12
isbn10_bytes_to_isbn13(isbn10) ==
    IF \/ Len(isbn10) # 10
       \/ ~(\A n \in 1..9 : is_ascii_digit(isbn10[n]))
       \/ ~(is_ascii_digit(isbn10[10]) \/ isbn10[10] = AsciiX)
    THEN None
    ELSE isbn13_of(SubSeq(isbn10, 1, 9))

\* isbn10_to_isbn13 (isbn.rs:5-27): Option<String>
isbn10_to_isbn13(isbn10) == isbn10_bytes_to_isbn13(remove_hyphens(isbn10))

\* isbn.rs:38-44: acc is the running sum of the digits, sum the sum of the
\* running sums, and acc is added once more: 10*d1 + 9*d2 + ... + 2*d9
RECURSIVE isbn10_sum(_, _, _, _)
isbn10_sum(isbn10, i, acc, sum) ==
    IF i > 9 THEN sum + acc
    ELSE isbn10_sum(isbn10, i + 1, acc + (isbn10[i] - Ascii0),
                    sum + acc + (isbn10[i] - Ascii0))

\* isbn.rs:45-49: the match on 11 - (sum % 11)
isbn10_check(sum) ==
    IF 11 - (sum % 11) \in 0..9 THEN Returned((11 - (sum % 11)) + Ascii0)
    ELSE IF 11 - (sum % 11) = 10 THEN Returned(AsciiX)
    ELSE Panicked

\* isbn.rs:35-51: the nine digits and the check byte
isbn10_of(body, check) ==
    IF check.panicked THEN Panicked ELSE Returned(Some(body \o <<check.v>>))

\* isbn.rs:31-33
isbn13_bytes_to_isbn10(isbn13) ==
    IF Len(isbn13) # 13 \/ ~(\A n \in 1..13 : is_ascii_digit(isbn13[n]))
    THEN Returned(None)
    ELSE isbn10_of(SubSeq(isbn13, 4, 12),
                   isbn10_check(isbn10_sum(SubSeq(isbn13, 4, 12), 1, 0, 0)))

\* isbn13_to_isbn10 (isbn.rs:29-52): Option<String>, or a panic
isbn13_to_isbn10(isbn13) == isbn13_bytes_to_isbn10(remove_hyphens(isbn13))

(***************************************************************************)
(* SpecIsbn: each conversion applied to a sample string.                   *)
(***************************************************************************)
\* the number of leading digits of a sample ISBN that take every value
IsbnVary == 2

\* the string of the decimal digits ds
Digits(ds) == [n \in 1..Len(ds) |-> Ascii0 + ds[n]]

\* nine-digit bodies: those of the tests (isbn.rs:58-80) and zeros, with
\* their leading digits replaced
IsbnTails ==
    {Digits(<<0, 3, 0, 6, 4, 0, 6, 1, 5>>), Digits(<<0, 8, 0, 4, 4, 2, 9, 5, 7>>),
     Digits(<<0, 0, 0, 0, 0, 0, 0, 0, 0>>)}

IsbnBodies ==
    {[n \in 1..9 |-> IF n <= IsbnVary THEN Ascii0 + v[n] ELSE tail[n]] :
        v \in [1..IsbnVary -> 0..9], tail \in IsbnTails}

\* strings that are no ISBN: too short, too long, a letter, an X in the
\* middle; and an ISBN-10 and an ISBN-13 written with hyphens
IsbnOthers ==
    {<<>>, Digits(<<0, 3, 0, 6, 4, 0, 6, 1, 5>>),
     Digits(<<0, 3, 0, 6, 4, 0, 6, 1, 5, 2, 0>>),
     Digits(<<9, 7, 8, 0, 3, 0, 6, 4, 0, 6, 1, 5>>),
     Digits(<<9, 7, 8, 0, 3, 0, 6, 4, 0, 6, 1, 5, 7, 0>>),
     <<AsciiLowerA>> \o Digits(<<3, 0, 6, 4, 0, 6, 1, 5, 2>>),
     Digits(<<0, 3, 0, 6, 4, 0, 6, 1, 5>>) \o <<AsciiLowerA>>,
     Digits(<<0, 3, 0, 6>>) \o <<AsciiX>> \o Digits(<<0, 6, 1, 5, 2>>),
     Digits(<<9, 7, 8, 0, 3, 0, 6, 4, 0, 6, 1, 5>>) \o <<AsciiX>>,
     Digits(<<9, 7, 8>>) \o <<AsciiLowerA>> \o Digits(<<3, 0, 6, 4, 0, 6, 1, 5, 7>>),
     Digits(<<0>>) \o <<AsciiHyphen>> \o Digits(<<3, 0, 6>>) \o <<AsciiHyphen>>
        \o Digits(<<4, 0, 6, 1, 5>>) \o <<AsciiHyphen>> \o Digits(<<2>>),
     Digits(<<9, 7, 8>>) \o <<AsciiHyphen>> \o Digits(<<0, 3, 0, 6, 4, 0, 6, 1, 5>>)
        \o <<AsciiHyphen>> \o Digits(<<7>>)}

Isbn10Samples ==
    {body \o <<c>> : body \in IsbnBodies, c \in (Ascii0..(Ascii0 + 9)) \cup {AsciiX}}
        \cup IsbnOthers

Isbn13Samples ==
    {Digits(<<9, 7>>) \o <<p>> \o body \o <<c>> :
        p \in {Ascii0 + 8, Ascii0 + 9}, body \in IsbnBodies, c \in {Ascii0, Ascii0 + 7}}
        \cup IsbnOthers

\* the effect of isbn10_to_isbn13(isbn10) that returned res; back is what
\* isbn13_to_isbn10 makes of the result
Isbn10Converted(isbn10, res) ==
    /\ last' = [op |-> "isbn10_to_isbn13", arg |-> isbn10, res |-> res,
                back |-> {isbn13_to_isbn10(isbn13) : isbn13 \in res}]
    /\ UNCHANGED <<endian, db, it, issued, fresh, calls>>

\* isbn10_to_isbn13(&isbn10) of the string drawn
Isbn10ToIsbn13 ==
    /\ last.op = "isbn10"
    /\ Isbn10Converted(last.arg, isbn10_to_isbn13(last.arg))

\* isbn13_to_isbn10(&isbn13) of the string drawn
Isbn13ToIsbn10 ==
    /\ last.op = "isbn13"
    /\ last' = [op |-> "isbn13_to_isbn10", arg |-> last.arg,
                res |-> isbn13_to_isbn10(last.arg)]
    /\ UNCHANGED <<endian, db, it, issued, fresh, calls>>

\* a string is drawn for one of the conversions
InitIsbn ==
    /\ endian \in Endians
    /\ db = open_db(0)
    /\ it = NoIter
    /\ \/ \E isbn10 \in Isbn10Samples : last = [op |-> "isbn10", arg |-> isbn10]
       \/ \E isbn13 \in Isbn13Samples : last = [op |-> "isbn13", arg |-> isbn13]
    /\ issued = <<>>
    /\ fresh = <<>>
    /\ calls = NoCalls

NextIsbn ==
    \/ Isbn10ToIsbn13
    \/ Isbn13ToIsbn10

SpecIsbn == InitIsbn /\ [][NextIsbn]_vars

(***************************************************************************)
(* PartialDate (date.rs): <<year, None>>, <<year, Some(<<month, None>>)>>  *)
(* or <<year, Some(<<month, Some(day)>>)>>.  A string is the sequence of   *)
(* its bytes.                                                              *)
(***************************************************************************)
\* '+', u16::MAX and u8::MAX
AsciiPlus == 43
U16Max == 65535
U8Max == 255

from_y(year) == <<year, None>>
from_ym(year, month) == <<year, Some(<<month, None>>)>>
from_ymd(year, month, day) == <<year, Some(<<month, Some(day)>>)>>

\* the decimal digits of n
RECURSIVE decimal(_)
decimal(n) == IF n < 10 THEN <<Ascii0 + n>> ELSE Append(decimal(n \div 10), Ascii0 + (n % 10))

RECURSIVE zero_pad_truncating(_, _)
zero_pad_truncating(s, width) ==
    IF Len(s) > width THEN SubSeq(s, Len(s) - width + 1, Len(s))
    ELSE IF Len(s) = width THEN s
    ELSE zero_pad_truncating(<<Ascii0>> \o s, width)

\* "{:04}" and "{:02}": zeros in front, up to the width
RECURSIVE zero_pad(_, _)
zero_pad(s, width) == IF Len(s) >= width THEN s ELSE zero_pad(<<Ascii0>> \o s, width)

\* date.rs:42-44
fmt_day(opt_day) ==
    IF opt_day = None THEN <<>>
    ELSE <<AsciiHyphen>> \o zero_pad(decimal(Unwrap(opt_day)), 2)

\* date.rs:40-45
fmt_month(rest) ==
    IF rest = None THEN <<>>
    ELSE <<AsciiHyphen>> \o zero_pad(decimal(Unwrap(rest)[1]), 2) \o fmt_day(Unwrap(rest)[2])

\* Display for PartialDate (date.rs:37-48); to_string() is this text
PartialDate_fmt(self) == zero_pad(decimal(self[1]), 4) \o fmt_month(self[2])

\* s.split('-'): the pieces between the hyphens, at least one
RECURSIVE split(_, _)
split(s, piece) ==
    IF s = <<>> THEN <<piece>>
    ELSE IF Head(s) = AsciiHyphen THEN <<piece>> \o split(Tail(s), <<>>)
    ELSE split(Tail(s), Append(piece, Head(s)))

\* the value of the digits s, as long as it is at most max
RECURSIVE parse_digits(_, _, _)
parse_digits(s, max, value) ==
    IF s = <<>> THEN Ok(value)
    ELSE IF ~is_ascii_digit(Head(s)) THEN Err("invalid digit found in string")
    ELSE IF value * 10 + (Head(s) - Ascii0) > max
    THEN Err("number too large to fit in target type")
    ELSE parse_digits(Tail(s), max, value * 10 + (Head(s) - Ascii0))

\* str::parse::<u16>() and str::parse::<u8>(): digits, after an optional '+'
parse_unsigned(s, max) ==
    IF s = <<>> THEN Err("cannot parse integer from empty string")
    ELSE IF Head(s) = AsciiPlus
    THEN (IF Tail(s) = <<>> THEN Err("invalid digit found in string")
          ELSE parse_digits(Tail(s), max, 0))
    ELSE parse_digits(s, max, 0)

\* date.rs:69-70
from_str_ensure(pieces, date) ==
    IF Len(pieces) > 3 THEN Err("too many date components") ELSE Ok(date)

\* date.rs:63-67
from_str_day(pieces, year, month, day) ==
    IF ~day.ok THEN day ELSE from_str_ensure(pieces, from_ymd(year, month, day.v))

\* date.rs:61-68
from_str_month(pieces, year, month) ==
    IF ~month.ok THEN month
    ELSE IF Len(pieces) >= 3
    THEN from_str_day(pieces, year, month.v, parse_unsigned(pieces[3], U8Max))
    ELSE from_str_ensure(pieces, from_ym(year, month.v))

\* date.rs:55-61
from_str_year(pieces, year) ==
    IF ~year.ok THEN year
    ELSE IF Len(pieces) >= 2
    THEN from_str_month(pieces, year.v, parse_unsigned(pieces[2], U8Max))
    ELSE from_str_ensure(pieces, from_y(year.v))

from_str_pieces(pieces) == from_str_year(pieces, parse_unsigned(pieces[1], U16Max))

\* FromStr for PartialDate (date.rs:50-72): Result<PartialDate, Error>
PartialDate_from_str(s) == from_str_pieces(split(s, <<>>))

(***************************************************************************)
(* SpecDate: a PartialDate is printed and parsed again, or a sample string *)
(* is parsed.                                                              *)
(***************************************************************************)
\* the sample years and months are the first DateWindow + 1 values at and
\* above each place where the number of digits changes, and the last ones
DateWindow == 1

DateYears ==
    {edge + k : edge \in {0, 999, 9999}, k \in 0..DateWindow}
        \cup {U16Max - k : k \in 0..DateWindow} \cup {6969}

DateMonths ==
    {edge + k : edge \in {0, 9, 99}, k \in 0..DateWindow}
        \cup {U8Max - k : k \in 0..DateWindow} \cup {4}

DateDays == {4, 20, U8Max}

PartialDates ==
    {from_y(year) : year \in DateYears}
        \cup {from_ym(year, month) : year \in DateYears, month \in DateMonths}
        \cup {from_ymd(year, month, day) :
                 year \in DateYears, month \in DateMonths, day \in DateDays}

\* strings that are no text of a PartialDate: more than three components,
\* a component that is empty, no number, or too large; and dates written
\* without padding or with a sign
DateStrings ==
    {PartialDate_fmt(from_ymd(6969, 4, 20)) \o <<AsciiHyphen>> \o tail :
        tail \in {<<>>, decimal(1), <<AsciiX>>, decimal(1) \o <<AsciiHyphen>> \o decimal(2)}}
        \cup {<<>>, <<AsciiX>>, <<AsciiPlus>>, <<AsciiHyphen>>,
              <<AsciiPlus>> \o decimal(2000), decimal(U16Max + 1),
              decimal(2000) \o <<AsciiHyphen>>,
              decimal(2000) \o <<AsciiHyphen>> \o decimal(U8Max + 1),
              decimal(2000) \o <<AsciiHyphen>> \o decimal(4) \o <<AsciiHyphen>> \o <<AsciiX>>,
              decimal(1) \o <<AsciiHyphen>> \o decimal(2) \o <<AsciiHyphen>> \o decimal(3),
              <<AsciiX>> \o <<AsciiHyphen>> \o decimal(2) \o <<AsciiHyphen>> \o decimal(3)
                 \o <<AsciiHyphen>> \o decimal(4)}

\* the effect of date.to_string() that returned text; back is text parsed
DatePrinted(date, text) ==
    /\ last' = [op |-> "to_string", date |-> date, text |-> text,
                back |-> PartialDate_from_str(text)]
    /\ UNCHANGED <<endian, db, it, issued, fresh, calls>>

\* date.to_string() of the PartialDate drawn
DateToString ==
    /\ last.op = "date"
    /\ DatePrinted(last.date, PartialDate_fmt(last.date))

\* PartialDate::from_str(s) of the string drawn
DateFromStr ==
    /\ last.op = "text"
    /\ last' = [op |-> "from_str", s |-> last.s, res |-> PartialDate_from_str(last.s)]
    /\ UNCHANGED <<endian, db, it, issued, fresh, calls>>

\* a PartialDate or a string is drawn
InitDate ==
    /\ endian \in Endians
    /\ db = open_db(0)
    /\ it = NoIter
    /\ \/ \E date \in PartialDates : last = [op |-> "date", date |-> date]
       \/ \E s \in DateStrings : last = [op |-> "text", s |-> s]
    /\ issued = <<>>
    /\ fresh = <<>>
    /\ calls = NoCalls

NextDate ==
    \/ DateToString
    \/ DateFromStr

SpecDate == InitDate /\ [][NextDate]_vars

(***************************************************************************)
(* SpecRead: saves, one of which may fail at the commit of the index, and  *)
(* every reading call, each of which may fail.                             *)
(***************************************************************************)
\* save is called at most this many times in a behaviour of SpecRead
MaxReadSaves == 1
\* the Iter of SpecRead is polled at most this many times
MaxReadPolls == 2

\* the rows saved in SpecRead: the Items of SpecIter and the User of SpecFault
ReadRows(T) == IF T = "Item" THEN IterRows(T) ELSE FaultRows(T)

NextRead ==
    \/ /\ calls.saves < MaxReadSaves
       /\ \E T \in RowTypes : \E row \in ReadRows(T) : \E fail \in {"none", "commit"} :
             Save(T, row, fail)
    \/ \E T \in RowTypes : \E id \in LoadIds(T) : \E fail \in {"none", "sled"} :
          Load(T, id, fail)
    \/ \E T \in RowTypes : \E query \in QueryStrings(T) : \E fail \in {"none", "reader"} :
          Query(T, query, fail)
    \/ \E T \in RowTypes : Iter(T)
    \/ /\ \A i \in it : i.polls < MaxReadPolls
       /\ \E fail \in {"none", "get_gt", "secondary"} : Next_(fail)
    \/ \E fail \in {"none", "sled"} : Dump(fail)

SpecRead == Init /\ [][NextRead]_vars

(***************************************************************************)
(* SpecTrack: Items are saved while one Iter over the Items is polled.     *)
(***************************************************************************)
\* db.iter::<T>(), as Iter(T); start, the keys of the table when the Iter
\* is created, is kept as history of the Iter as well
IterTracked(T) ==
    /\ it' = Some([iter |-> Iter_new(T), out |-> <<>>, dirty |-> FALSE,
                   erred |-> FALSE, ended |-> FALSE, polls |-> 0,
                   start |-> DOMAIN db.sled[TREE(T)]])
    /\ last' = [op |-> "iter", T |-> T]
    /\ UNCHANGED <<endian, db, issued, fresh, calls>>

\* the rows saved in SpecTrack: new Items, and saved Items again
TrackRows == {row \in ItemRows : row.title = "a" /\ row.borrower = None}

NextTrack ==
    \/ \E row \in TrackRows : Save("Item", row, "none")
    \/ IterTracked("Item")
    \/ \E fail \in {"none", "get_gt"} : Next_(fail)

SpecTrack == Init /\ [][NextTrack]_vars

(***************************************************************************)
(* Ord for Item (item.rs:357-382), on the fields it reads.  A string is    *)
(* the sequence of its bytes; a LESBClassification is its position in the  *)
(* enum.                                                                   *)
(***************************************************************************)
\* Ordering::then
Ordering_then(self, other) == IF self # "Equal" THEN self ELSE other

Ordering_reverse(self) ==
    IF self = "Less" THEN "Greater" ELSE IF self = "Greater" THEN "Less" ELSE "Equal"

\* Ord for the integers, and for the derived LESBClassification
int_cmp(a, b) == IF a < b THEN "Less" ELSE IF a > b THEN "Greater" ELSE "Equal"

\* Ord for String: the bytes, lexicographically
str_cmp(a, b) == IF a = b THEN "Equal" ELSE IF LexLess(a, b) THEN "Less" ELSE "Greater"

\* Ord for Option: None is less than Some
option_cmp(a, b, cmp(_, _)) ==
    IF a = None /\ b = None THEN "Equal"
    ELSE IF a = None THEN "Less"
    ELSE IF b = None THEN "Greater"
    ELSE cmp(Unwrap(a), Unwrap(b))

\* Ord for (u64, u64), and for (u8, Option<u8>)
pair_cmp(a, b) == Ordering_then(int_cmp(a[1], b[1]), int_cmp(a[2], b[2]))

month_day_cmp(a, b) == Ordering_then(int_cmp(a[1], b[1]), option_cmp(a[2], b[2], int_cmp))

\* the derived Ord for PartialDate (date.rs:8-9)
PartialDate_cmp(a, b) ==
    Ordering_then(int_cmp(a[1], b[1]), option_cmp(a[2], b[2], month_day_cmp))

\* Item::author_sort (item.rs:223-232)
RECURSIVE author_sort_of(_)
author_sort_of(authors) ==
    IF authors = <<>> THEN <<>>
    ELSE Head(authors).sort_name
            \o (IF Head(authors).join_phrase = None THEN <<>>
                ELSE Unwrap(Head(authors).join_phrase))
            \o author_sort_of(Tail(authors))

author_sort(self) == author_sort_of(self.authors)

\* item.rs:367-371
cmp_author_or_title(self, other) ==
    IF self.authors = <<>> THEN str_cmp(self.title, other.title)
    ELSE str_cmp(author_sort(self), author_sort(other))

\* item.rs:374-378
cmp_title_after_author(self, other) ==
    IF self.authors = <<>> THEN "Equal" ELSE str_cmp(self.title, other.title)

\* Ord::cmp for Item (item.rs:364-381)
Item_cmp(self, other) ==
    Ordering_then(int_cmp(self.classification, other.classification),
    Ordering_then(cmp_author_or_title(self, other),
    Ordering_then(option_cmp(self.original_date, other.original_date, PartialDate_cmp),
    Ordering_then(option_cmp(self.volume_and_issue, other.volume_and_issue, pair_cmp),
    Ordering_then(cmp_title_after_author(self, other),
    Ordering_then(str_cmp(self.language, other.language),
                  option_cmp(self.id, other.id, int_cmp)))))))

(***************************************************************************)
(* SpecOrd: three sample Items are compared with one another.              *)
(***************************************************************************)
\* Items with or without an author, in two classifications, with titles
\* "X" and "Y", with and without a date and an identifier
OrdItems ==
    [id : {None, Some(0)},
     classification : {0, 1},
     authors : {<<>>, <<[sort_name |-> <<AsciiX>>, join_phrase |-> None]>>},
     original_date : {None, Some(from_y(6969))},
     title : {<<AsciiX>>, <<AsciiX + 1>>},
     language : {<<AsciiLowerA>>},
     volume_and_issue : {None}]

\* a.cmp(&b), b.cmp(&a), b.cmp(&c) and a.cmp(&c) of the Items drawn
ItemCmp ==
    /\ last.op = "items"
    /\ last' = [op |-> "cmp", a |-> last.a, b |-> last.b, c |-> last.c,
                ab |-> Item_cmp(last.a, last.b), ba |-> Item_cmp(last.b, last.a),
                bc |-> Item_cmp(last.b, last.c), ac |-> Item_cmp(last.a, last.c)]
    /\ UNCHANGED <<endian, db, it, issued, fresh, calls>>

\* three Items are drawn
InitOrd ==
    /\ endian \in Endians
    /\ db = open_db(0)
    /\ it = NoIter
    /\ \E a \in OrdItems : \E b \in OrdItems : \E c \in OrdItems :
          last = [op |-> "items", a |-> a, b |-> b, c |-> c]
    /\ issued = <<>>
    /\ fresh = <<>>
    /\ calls = NoCalls

NextOrd == ItemCmp

SpecOrd == InitOrd /\ [][NextOrd]_vars

(***************************************************************************)
(* Properties                                                              *)
(***************************************************************************)
\* the blob a save of row leaves in the primary table
StoredBlob(T, row) ==
    IF T = "Item" THEN Item_serialize([row EXCEPT !.borrower = None])
    ELSE User_serialize(row)

RowTerms(T, row) ==
    IF T = "Item" THEN Item_document(row).terms ELSE User_document(row).terms

\* the term q matches row, and no other record of the primary table of T
MatchesOnly(T, q, row) ==
    /\ q \in RowTerms(T, row)
    /\ \A id \in LoadIds(T) \ {RowId(T, row)} :
          \A other \in Db_load(db, T, id, "none").v : q \notin RowTerms(T, other)

\* C1: after a successful Db::save(r), of an Item or a User, Db::load of the
\* identifier r holds after the save returns Some(record) equal to r in
\* every field: the identifier and, for an Item, the borrower (None or Some)
\* included.
C1_RoundTrip ==
    (last.op = "save" /\ last.res.ok) =>
        Db_load(db, last.T, RowId(last.T, last.row), "none") = Ok(Some(last.row))

\* an Item that has its identifier is saved again, with a borrower
C1_Witness ==
    /\ last.op = "save" /\ last.res.ok /\ last.T = "Item"
    /\ last.arg.id # None
    /\ last.row.borrower # None
    /\ tree_get(last.before.sled["item-checkout"], id_to_bytes(RowId("Item", last.row))) = None

\* C2: after any number of successful saves of a record r, re-saves with
\* changed fields included, Db::query with a term that matches only r
\* returns the list of exactly one record, r as it was last saved.
C2_IndexConsistency ==
    (last.op = "save" /\ last.res.ok) =>
        \A q \in QueryStrings(last.T) :
            MatchesOnly(last.T, q, last.row) =>
                Db_query(db, last.T, q, "none") = Ok(<<last.row>>)

\* an Item is saved for the third time, another Item is in the table, and
\* the title of this save matches this Item alone
C2_Witness ==
    /\ last.op = "save" /\ last.res.ok /\ last.T = "Item"
    /\ last.arg.id # None
    /\ Len(db.indices["Item"].committed) = 2
    /\ calls.saves = MaxSaves
    /\ MatchesOnly("Item", last.row.title, last.row)

\* C3: after every successful Db::save of an Item with identifier i, the
\* table 'item-checkout' holds the entry i -> borrower exactly when the
\* Item's borrower is Some at that save, and no entry for i when it is None
\* (a save with the borrower cleared removes the entry an earlier save
\* wrote); the entries of the other identifiers are as they were.
C3_SecondaryReconciled ==
    (last.op = "save" /\ last.res.ok /\ last.T = "Item") =>
        /\ tree_get(db.sled["item-checkout"], id_to_bytes(RowId("Item", last.row)))
              = {id_to_bytes(b) : b \in last.row.borrower}
        /\ \A i \in Range(issued) \ {RowId("Item", last.row)} :
              tree_get(db.sled["item-checkout"], id_to_bytes(i))
                 = tree_get(last.before.sled["item-checkout"], id_to_bytes(i))

\* an Item that was saved with a borrower is saved with the borrower cleared
C3_Witness ==
    /\ last.op = "save" /\ last.res.ok /\ last.T = "Item"
    /\ last.row.borrower = None
    /\ tree_get(last.before.sled["item-checkout"], id_to_bytes(RowId("Item", last.row))) # None
    /\ tree_get(db.sled["item-checkout"], id_to_bytes(RowId("Item", last.row))) = None

\* s and t hold the same elements, each as many times
SameBag(s, t) ==
    /\ Len(s) = Len(t)
    /\ \A x \in Range(s) :
          Cardinality({n \in DOMAIN s : s[n] = x}) = Cardinality({n \in DOMAIN t : t[n] = x})

\* C4: a store is dumped and the dump is restored into an empty store; the
\* iteration of the new store over Item and over User returns the same
\* multiset of records as that of the original, every record with the
\* identifier it had in the original store.
C4_DumpRestore ==
    (last.op = "restore_copy" /\ last.res.ok) =>
        \A T \in RowTypes : SameBag(iter_rows(last.copy, T), iter_rows(db, T))

\* C5: on a store that is not modified during the iteration, Db::iter
\* yields keys in strictly increasing lexicographic order, no key twice,
\* only keys of the type's primary table; when the reads of the store
\* succeed, the iteration that has ended has yielded every key of that
\* table (the key of identifier 0 included), and the poll after the last
\* key ends it.
C5_IterOrder ==
    \A i \in it :
        ~i.dirty =>
            /\ \A m \in 1..Len(i.out) : \A n \in 1..Len(i.out) :
                  m < n => LexLess(i.out[m].key, i.out[n].key)
            /\ {i.out[n].key : n \in 1..Len(i.out)} \subseteq DOMAIN db.sled[TREE(i.iter.T)]
            /\ (i.ended /\ ~i.erred) =>
                  {i.out[n].key : n \in 1..Len(i.out)} = DOMAIN db.sled[TREE(i.iter.T)]
            /\ (i.polls > Len(i.out) /\ ~i.erred) => i.ended /\ i.iter.done

\* three Items, the first with identifier 0, are iterated to the end
C5_Witness ==
    \E i \in it :
        /\ ~i.dirty /\ ~i.erred /\ i.ended
        /\ i.iter.T = "Item"
        /\ Len(i.out) = 3
        /\ i.out[1].key = id_to_bytes(0)
        /\ i.out[1].item = Ok([id |-> Some(0), title |-> "a", borrower |-> None])

\* C6: for all identifiers a and b, a < b if and only if id_to_bytes(a) is
\* lexicographically smaller than id_to_bytes(b).
C6_OrderPreserved ==
    last.op = "encode" => ((last.a < last.b) <=> LexLess(last.a_bytes, last.b_bytes))

\* C7: for every identifier x, id_to_u64(id_to_bytes(x)) succeeds and
\* returns x; for every 8-byte key k, id_to_bytes(id_to_u64(k)) = k.
C7_CodecInverse ==
    /\ last.op = "encode" => last.a_back = Ok(last.a)
    /\ (last.op = "decode" /\ Len(last.key) = IdLen) =>
          last.res.ok /\ last.back = Some(last.key)

\* identifier 256 is encoded and decoded, on a little-endian target
C7_Witness ==
    /\ last.op = "encode" /\ last.a = 256 /\ endian = "little"
    /\ last.a_bytes = <<0, 1, 0, 0, 0, 0, 0, 0>>
    /\ last.a_back = Ok(256)

\* the position of identifier id in the rows an iteration yields
Position(rows, id) == CHOOSE n \in 1..Len(rows) : rows[n].v.id = Some(id)

\* C8: for any number of Items that were saved without a prior identifier,
\* if A was first saved before B then Db::iter::<Item>() yields A before B.
C8_SaveOrder ==
    \A m \in 1..Len(fresh) : \A n \in 1..Len(fresh) :
        m < n => Position(iter_rows(db, "Item"), fresh[m])
                    < Position(iter_rows(db, "Item"), fresh[n])

\* C9: Db::save writes the primary table, then the index, then the
\* secondary tables, and stops at the first failure without rollback: when
\* prepare_commit or commit fails, save returns an error, the primary table
\* holds the new blob under the row's identifier, and no secondary table
\* (and no other primary table) was modified by the call; when the primary
\* write fails, no table and no index was modified.
C9_NoRollback ==
    /\ (last.op = "save" /\ last.fail \in {"prepare_commit", "commit"}) =>
          /\ ~last.res.ok
          /\ tree_get(db.sled[TREE(last.T)], id_to_bytes(RowId(last.T, last.row)))
                = Some(StoredBlob(last.T, last.row))
          /\ \A n \in TreeNames \ {TREE(last.T)} : db.sled[n] = last.before.sled[n]
    /\ (last.op = "save" /\ last.fail = "set") =>
          /\ ~last.res.ok
          /\ db.sled = last.before.sled
          /\ db.indices = last.before.indices

\* the commit fails in the save that clears the borrower of an Item: the
\* new blob is in the primary table and the checkout entry is still there
C9_Witness ==
    /\ last.op = "save" /\ last.fail = "commit" /\ last.T = "Item"
    /\ ~last.res.ok
    /\ last.row.borrower = None
    /\ tree_get(last.before.sled["item"], id_to_bytes(RowId("Item", last.row)))
          = Some([title |-> "a", borrower |-> None])
    /\ tree_get(db.sled["item"], id_to_bytes(RowId("Item", last.row)))
          = Some([title |-> "b", borrower |-> None])
    /\ tree_get(db.sled["item-checkout"], id_to_bytes(RowId("Item", last.row))) # None

\* the hit doc carries an identifier that has no record in the primary table
Dangling(T, doc) ==
    \E id \in doc.id : tree_get(db.sled[TREE(T)], id_to_bytes(id)) = None

\* C10: if a search hit of Db::query carries an identifier that has no
\* record in the primary table, the call returns an error, and none of the
\* other hits.
C10_DanglingHit ==
    (last.op = "query" /\ \E n \in 1..Len(last.hits) : Dangling(last.T, last.hits[n])) =>
        ~last.res.ok

\* two hits: the record of the first is stored, that of the second is not
C10_Witness ==
    /\ last.op = "query" /\ last.T = "Item"
    /\ Len(last.hits) = 2
    /\ ~Dangling("Item", last.hits[1])
    /\ Dangling("Item", last.hits[2])
    /\ last.res = Err("failed to find row")

\* C11: a store error met in a step of Iter::next, from the next-key
\* lookup of the primary table or from the lookup in a secondary table, is
\* yielded once as an error, and every later call of next() returns None.
C11_ErrorEndsIter ==
    (last.op = "next" /\ last.erred_before) => last.item = None

\* the lines of stream before its first malformed line
WellFormedPrefix(stream) ==
    SubSeq(stream, 1, (CHOOSE n \in 1..Len(stream) :
                          ~well_formed(stream[n]) /\ \A m \in 1..(n - 1) : well_formed(stream[m])) - 1)

TaggedLines(stream, tag) == {n \in 1..Len(stream) : stream[n].tag = tag}

\* C12: at the first malformed line or record of the input stream,
\* Db::restore returns an error, and no record of that line or of a later
\* line is saved: the store holds what it held before and one record for
\* each line in front of the malformed one.
C12_RestoreFailFast ==
    (last.op = "restore" /\ \E n \in 1..Len(last.stream) : ~well_formed(last.stream[n])) =>
        /\ ~last.res.ok
        /\ db.idgen = last.before.idgen
                         + Cardinality(TaggedLines(WellFormedPrefix(last.stream), "Item"))
        /\ Cardinality(DOMAIN db.sled["item"]) =
              Cardinality(DOMAIN last.before.sled["item"])
                 + Cardinality(TaggedLines(WellFormedPrefix(last.stream), "Item"))
        /\ DOMAIN db.sled["users"] =
              DOMAIN last.before.sled["users"]
                 \cup {id_to_bytes(WellFormedPrefix(last.stream)[n].data.barcode) :
                          n \in TaggedLines(WellFormedPrefix(last.stream), "User")}
        /\ Len(db.indices["Item"].committed) = Cardinality(DOMAIN db.sled["item"])

\* an Item line, a User record without barcode, then two well-formed lines
\* that are not restored
C12_Witness ==
    /\ last.op = "restore"
    /\ Len(last.stream) = 3
    /\ last.stream[1].tag = "Item"
    /\ last.stream[2] = [tag |-> "User", data |-> [name |-> "x", admin |-> FALSE]]
    /\ last.stream[3].tag = "User" /\ well_formed(last.stream[3])
    /\ last.res = Err("json")
    /\ db.idgen = last.before.idgen + 1
    /\ db.sled["users"] = last.before.sled["users"]
    /\ last.before.sled["item"] # EmptyTree

\* the document derived from the record that is stored under key
StoredDocument(T, key) ==
    [id |-> Some(id_to_u64(key).v),
     terms |-> RowTerms(T, Unwrap(Db_load(db, T, id_to_u64(key).v, "none").v))]

\* C13: in every state reached by successful saves, the index of a record
\* type holds exactly one document per record of the primary table, the
\* document derived from the record's current contents, and no document of
\* a replaced version.
C13_IndexProjection ==
    \A T \in RowTypes :
        /\ Len(db.indices[T].committed) = Cardinality(DOMAIN db.sled[TREE(T)])
        /\ \A key \in DOMAIN db.sled[TREE(T)] :
              Cardinality({n \in 1..Len(db.indices[T].committed) :
                              db.indices[T].committed[n] = StoredDocument(T, key)}) = 1

\* the title of one of two stored Items was changed by a re-save
C13_Witness ==
    /\ last.op = "save" /\ last.res.ok /\ last.T = "Item"
    /\ last.arg.id # None
    /\ tree_get(last.before.sled["item"], id_to_bytes(RowId("Item", last.row)))
          = Some([title |-> "a", borrower |-> None])
    /\ last.row.title = "b"
    /\ Cardinality(DOMAIN db.sled["item"]) = 2
    /\ Len(last.before.indices["Item"].committed) = 2

\* C14: the first save of an Item without identifier takes exactly one
\* identifier from the allocator and stores it in the row; a later save of
\* that row (or of the row as load returns it) keeps the identifier, does
\* not call the allocator, and overwrites the same primary key: the table
\* has the keys it had before.
C14_IdentifierAdopted ==
    (last.op = "save" /\ last.T = "Item" /\ last.res.ok) =>
        /\ last.arg.id = None =>
              /\ db.idgen = last.before.idgen + 1
              /\ last.row.id = Some(last.before.idgen)
        /\ last.arg.id # None =>
              /\ db.idgen = last.before.idgen
              /\ last.row.id = last.arg.id
              /\ DOMAIN db.sled["item"] = DOMAIN last.before.sled["item"]
        /\ tree_get(db.sled["item"], id_to_bytes(Unwrap(last.row.id)))
              = Some(StoredBlob("Item", last.row))

\* the Item that load returns for the first of two stored Items is saved
\* again with another title
C14_Witness ==
    /\ last.op = "save" /\ last.T = "Item" /\ last.res.ok
    /\ Cardinality(DOMAIN last.before.sled["item"]) = 2
    /\ Db_load(last.before, "Item", issued[1], "none")
          = Ok(Some([last.arg EXCEPT !.title = "a"]))
    /\ last.arg.title = "b"
    /\ db.idgen = issued[2] + 1

\* C15: Db::load(id) returns None, and no error, exactly when the primary
\* table has no entry for id, also when a secondary table holds one; when
\* the primary entry exists and the secondary table has no entry for id,
\* load succeeds and the Item's borrower is None.
C15_LoadNone ==
    last.op = "load" =>
        /\ last.res = Ok(None)
              <=> tree_get(db.sled[TREE(last.T)], id_to_bytes(last.id)) = None
        /\ ( /\ last.T = "Item"
             /\ tree_get(db.sled["item"], id_to_bytes(last.id)) # None
             /\ tree_get(db.sled["item-checkout"], id_to_bytes(last.id)) = None )
              => /\ last.res.ok
                 /\ last.res.v # None
                 /\ \A item \in last.res.v : item.borrower = None

\* the primary entry of Item 1 is gone and its checkout entry is not
C15_Witness ==
    /\ last.op = "load" /\ last.T = "Item" /\ last.id = 1
    /\ tree_get(db.sled["item"], id_to_bytes(1)) = None
    /\ tree_get(db.sled["item-checkout"], id_to_bytes(1)) = Some(id_to_bytes(256))
    /\ last.res = Ok(None)

\* C16: id_to_u64 returns an error exactly when its input is not 8 bytes
\* long, and Ok for every input of 8 bytes.
C16_DecodeLength ==
    last.op = "decode" => (last.res.ok <=> Len(last.key) = IdLen)

\* a key of one byte is refused
C16_Witness ==
    /\ last.op = "decode"
    /\ last.key = <<1>>
    /\ last.res = Err("row ID is incorrect length")

\* the keys of a table in byte order
RECURSIVE SortedKeys(_)
SortedKeys(keys) ==
    IF keys = {} THEN <<>>
    ELSE <<least_key(keys)>> \o SortedKeys(keys \ {least_key(keys)})

\* the tagged line of the record stored under key
StoredLine(T, key) ==
    [tag |-> T,
     data |-> IF T = "Item"
              THEN [title |-> db.sled["item"][key].title,
                    borrower |-> {id_to_u64(b).v : b \in tree_get(db.sled["item-checkout"], key)}]
              ELSE db.sled["users"][key]]

TableLines(T) ==
    [n \in 1..Cardinality(DOMAIN db.sled[TREE(T)]) |->
        StoredLine(T, SortedKeys(DOMAIN db.sled[TREE(T)])[n])]

\* C17: Db::dump writes one tagged line per stored record: the Items in
\* the order of their iteration, then the Users in the order of theirs,
\* the tag naming the record type; no record twice, none left out.
C17_DumpLines ==
    (last.op = "dump" /\ last.fail = "none") =>
        last.res = Ok(TableLines("Item") \o TableLines("User"))

\* two Items, one of them lent, and a User are dumped
C17_Witness ==
    /\ last.op = "dump" /\ last.res.ok
    /\ Len(last.res.v) = 3
    /\ last.res.v[1].tag = "Item" /\ last.res.v[2].tag = "Item"
    /\ last.res.v[1].data.borrower # last.res.v[2].data.borrower
    /\ last.res.v[3] = [tag |-> "User",
                        data |-> [barcode |-> 256, name |-> "y", admin |-> TRUE]]

\* C18: Db::query returns at most 10 records, however many documents of
\* the index match the query.
C18_QueryLimit ==
    (last.op = "query" /\ last.res.ok) => Len(last.res.v) <= 10

\* twelve Items match, ten are returned
C18_Witness ==
    /\ last.op = "query" /\ last.T = "Item" /\ last.query = "a"
    /\ Len(db.indices["Item"].committed) = 12
    /\ \A n \in 1..12 : "a" \in db.indices["Item"].committed[n].terms
    /\ last.res.ok
    /\ Len(last.res.v) = 10

\* C19: an Item saved without a prior identifier receives an identifier
\* strictly greater than every identifier the allocator handed out before,
\* so it shares its identifier with no Item of the primary table and the
\* save overwrites no Item.
C19_FreshIdentifier ==
    (last.op = "save" /\ last.T = "Item" /\ last.arg.id = None /\ last.row.id # None) =>
        /\ tree_get(last.before.sled["item"], id_to_bytes(Unwrap(last.row.id))) = None
        /\ Len(issued) > 0
        /\ issued[Len(issued)] = Unwrap(last.row.id)
        /\ \A n \in 1..(Len(issued) - 1) : issued[n] < Unwrap(last.row.id)

\* the identifier of a save that failed is not handed out again
C19_Witness ==
    /\ last.op = "save" /\ last.T = "Item" /\ last.arg.id = None /\ last.res.ok
    /\ Len(issued) = 2
    /\ tree_get(db.sled["item"], id_to_bytes(issued[1])) = None
    /\ last.row.id = Some(issued[1] + 1)
    /\ DOMAIN db.sled["item"] = {id_to_bytes(issued[2])}

\* the record row carries the identifier id
CarriesId(T, row, id) == IF T = "Item" THEN row.id = Some(id) ELSE row.barcode = id

\* C20: every record returned by Db::load(id), and every record Db::iter
\* yields at key k, carries the identifier it is stored under (Item.id =
\* Some(id), User.barcode = id); Row::load never returns a record with
\* another identifier, and a User blob whose barcode differs from the key is
\* an error.
C20_CarriesIdentifier ==
    /\ (last.op = "load" /\ last.res.ok) =>
          \A row \in last.res.v : CarriesId(last.T, row, last.id)
    /\ \A T \in RowTypes : \A n \in 1..Len(iter_rows(db, T)) :
          /\ iter_rows(db, T)[n].ok
          /\ \E id \in LoadSampleIds \cup Range(issued) :
                /\ id_to_bytes(id) = SortedKeys(DOMAIN db.sled[TREE(T)])[n]
                /\ CarriesId(T, iter_rows(db, T)[n].v, id)
    /\ last.op = "row_load" =>
          /\ last.res.ok => CarriesId(last.T, last.res.v, last.id)
          /\ (last.T = "User" /\ last.blob.barcode # last.id) => ~last.res.ok

\* a User blob with barcode 256 is loaded for key 1
C20_Witness ==
    /\ last.op = "row_load" /\ last.T = "User"
    /\ last.id = 1 /\ last.blob.barcode = 256
    /\ last.res = Err("id and barcode do not match")

\* the field of the record that holds the identifier the record is stored
\* under (item.rs:98 and item.rs:329; user.rs:47 and user.rs:83)
IdentifierField(T) == IF T = "Item" THEN "id" ELSE "barcode"

\* C21: for every Row type, the primary blob a successful save writes does
\* not encode the record's identifier: the field that holds the identifier
\* used as the table key is not one of the fields of the blob.
C21_BlobOmitsIdentifier ==
    (last.op = "save" /\ last.res.ok) =>
        \A blob \in tree_get(db.sled[TREE(last.T)], id_to_bytes(RowId(last.T, last.row))) :
            IdentifierField(last.T) \notin DOMAIN blob

\* C22: whenever Item::save returns, Ok or Err (the serialization failed),
\* the row's borrower equals its value before the call; and no blob of the
\* primary table of Item encodes a borrower.
C22_BorrowerRestored ==
    /\ (last.op = "save" /\ last.T = "Item") => last.row.borrower = last.arg.borrower
    /\ \A key \in DOMAIN db.sled["item"] : db.sled["item"][key].borrower = None

\* an Item with a borrower was saved, and a second save of an Item with a
\* borrower failed in the serialization
C22_Witness ==
    /\ last.op = "save" /\ last.T = "Item"
    /\ last.fail = "cbor" /\ ~last.res.ok
    /\ last.arg.borrower = Some(256)
    /\ last.row.borrower = Some(256)
    /\ DOMAIN db.sled["item-checkout"] # {}
    /\ \E key \in DOMAIN db.sled["item-checkout"] :
          db.sled["item"][key] = [title |-> "a", borrower |-> None]

\* what Iter yields for an entry, as Db::load returns the same outcome
Mirrored(item) == IF item.ok THEN Ok(Some(item.v)) ELSE item

\* C23: for every key k of a type's primary table, what the iterator yields
\* at k (a record, with its secondary-table values, or an error of the
\* deserialization) is what Db::load of the identifier decoded from k
\* returns in that state: for every entry an Iter has yielded since the
\* tables last changed; and an Iter that has ended without an error has
\* yielded an entry for every key of the table.
C23_IterMirrorsLoad ==
    \A i \in it : ~i.dirty =>
        /\ \A n \in 1..Len(i.out) :
              /\ id_to_u64(i.out[n].key).ok
              /\ Db_load(db, i.iter.T, id_to_u64(i.out[n].key).v, "none")
                    = Mirrored(i.out[n].item)
        /\ (i.ended /\ ~i.erred) =>
              {i.out[n].key : n \in 1..Len(i.out)} = DOMAIN db.sled[TREE(i.iter.T)]

\* an Iter over two Items has yielded both, the second with its borrower
C23_Witness ==
    /\ last.op = "next"
    /\ \E i \in it :
          /\ ~i.dirty /\ i.iter.T = "Item" /\ Len(i.out) = 2
          /\ i.out[2].item.ok
          /\ i.out[2].item.v.borrower = Some(256)
          /\ i.out[1].item.v.borrower = None
          /\ tree_get(db.sled["item-checkout"], i.out[2].key) = Some(id_to_bytes(256))

\* Db::save called on the records of stream, in order
RECURSIVE ReplaySaves(_, _)
ReplaySaves(d, stream) ==
    IF stream = <<>> THEN d
    ELSE ReplaySaves(Db_save(d, Head(stream).tag, DumpRow_from_json(Head(stream)), "none").db,
                     Tail(stream))

\* the term a query finds the record of line by
LineTerm(line) == IF line.tag = "Item" THEN line.data.title ELSE line.data.name

\* row is the record of line, under some identifier
RecordOf(line, row) ==
    IF line.tag = "Item"
    THEN row.title = line.data.title /\ row.borrower = line.data.borrower
    ELSE row = User_deserialize(line.data)

BorrowedLines(stream) ==
    {n \in 1..Len(stream) : stream[n].tag = "Item" /\ stream[n].data.borrower # None}

\* C24: restoring a well-formed stream of n tagged records succeeds and
\* leaves the primary tables, the secondary tables, the indices and the
\* allocator in the state that Db::save of those n records, in order,
\* leaves; every restored record is found by a query, and every restored
\* Item with a borrower has its entry in 'item-checkout'.
C24_RestoreReplaysSaves ==
    (last.op = "restore" /\ \A n \in 1..Len(last.stream) : well_formed(last.stream[n])) =>
        /\ last.res.ok
        /\ db = ReplaySaves(last.before, last.stream)
        /\ \A n \in 1..Len(last.stream) :
              /\ Db_query(db, last.stream[n].tag, LineTerm(last.stream[n]), "none").ok
              /\ \E row \in Range(Db_query(db, last.stream[n].tag,
                                           LineTerm(last.stream[n]), "none").v) :
                    RecordOf(last.stream[n], row)
        /\ Cardinality(DOMAIN db.sled["item-checkout"]) =
              Cardinality(DOMAIN last.before.sled["item-checkout"])
                 + Cardinality(BorrowedLines(last.stream))

\* an Item, a borrowed Item and a User are restored into a store that
\* holds one Item
C24_Witness ==
    /\ last.op = "restore" /\ last.res.ok
    /\ Len(last.stream) = 3
    /\ last.stream[1].tag = "Item" /\ last.stream[1].data.borrower = None
    /\ last.stream[2].tag = "Item" /\ last.stream[2].data.borrower = Some(256)
    /\ last.stream[3].tag = "User"
    /\ Cardinality(DOMAIN last.before.sled["item"]) = 1
    /\ Cardinality(DOMAIN db.sled["item"]) = 3
    /\ Cardinality(DOMAIN db.sled["item-checkout"]) = 1
    /\ Len(db.indices["Item"].committed) = 3
    /\ Len(db.indices["User"].committed) = 1

\* s is 9 ASCII digits followed by a digit or 'X'
IsIsbn10(s) ==
    /\ Len(s) = 10
    /\ \A n \in 1..9 : is_ascii_digit(s[n])
    /\ is_ascii_digit(s[10]) \/ s[10] = AsciiX

\* s is 13 ASCII digits
IsIsbn13(s) == Len(s) = 13 /\ \A n \in 1..13 : is_ascii_digit(s[n])

\* the value of a check character: a digit, or 10 for 'X'
CheckValue(c) == IF c = AsciiX THEN 10 ELSE c - Ascii0

\* 10*d1 + 9*d2 + ... + 2*d9 + c is divisible by 11
Isbn10CheckCorrect(s) ==
    (10 * (s[1] - Ascii0) + 9 * (s[2] - Ascii0) + 8 * (s[3] - Ascii0)
        + 7 * (s[4] - Ascii0) + 6 * (s[5] - Ascii0) + 5 * (s[6] - Ascii0)
        + 4 * (s[7] - Ascii0) + 3 * (s[8] - Ascii0) + 2 * (s[9] - Ascii0)
        + CheckValue(s[10])) % 11 = 0

\* the digits weighted 1, 3, 1, 3, ... sum to a multiple of 10
Isbn13CheckCorrect(s) ==
    ((s[1] - Ascii0) + 3 * (s[2] - Ascii0) + (s[3] - Ascii0) + 3 * (s[4] - Ascii0)
        + (s[5] - Ascii0) + 3 * (s[6] - Ascii0) + (s[7] - Ascii0) + 3 * (s[8] - Ascii0)
        + (s[9] - Ascii0) + 3 * (s[10] - Ascii0) + (s[11] - Ascii0) + 3 * (s[12] - Ascii0)
        + (s[13] - Ascii0)) % 10 = 0

\* C25: for every string of 13 ASCII digits (after removing hyphens)
\* isbn13_to_isbn10 returns, without panicking, Some(s), where s is the 9
\* digits at positions 4..12 followed by the ISBN-10 check character (a
\* digit, or 'X' for 10) that makes 10*d1 + ... + 2*d9 + c divisible by 11;
\* for any other input it returns None.
C25_Isbn13ToIsbn10 ==
    last.op = "isbn13_to_isbn10" =>
        /\ ~last.res.panicked
        /\ IF IsIsbn13(remove_hyphens(last.arg))
           THEN \E s \in last.res.v :
                   /\ IsIsbn10(s)
                   /\ SubSeq(s, 1, 9) = SubSeq(remove_hyphens(last.arg), 4, 12)
                   /\ Isbn10CheckCorrect(s)
           ELSE last.res.v = None

\* C26: for every input of 9 ASCII digits followed by a digit or 'X' (after
\* removing hyphens) isbn10_to_isbn13 returns Some of 13 ASCII digits:
\* '978', the first 9 digits of the input, and the ISBN-13 check digit that
\* makes the sum with weights 1, 3, 1, 3, ... divisible by 10; for any other
\* input it returns None.
C26_Isbn10ToIsbn13 ==
    last.op = "isbn10_to_isbn13" =>
        IF IsIsbn10(remove_hyphens(last.arg))
        THEN \E s \in last.res :
                /\ IsIsbn13(s)
                /\ SubSeq(s, 1, 3) = Digits(<<9, 7, 8>>)
                /\ SubSeq(s, 4, 12) = SubSeq(remove_hyphens(last.arg), 1, 9)
                /\ Isbn13CheckCorrect(s)
        ELSE last.res = None

\* C27: for every ISBN-10 x with a correct check character,
\* isbn13_to_isbn10(isbn10_to_isbn13(x)) returns Some(x).
C27_IsbnRoundTrip ==
    (/\ last.op = "isbn10_to_isbn13"
     /\ IsIsbn10(last.arg)
     /\ Isbn10CheckCorrect(last.arg)) =>
        last.back = {Returned(Some(last.arg))}

\* the components of a PartialDate: the year, then month and day if present
DateNumbers(date) ==
    IF date[2] = None THEN <<date[1]>>
    ELSE IF Unwrap(date[2])[2] = None THEN <<date[1], Unwrap(date[2])[1]>>
    ELSE <<date[1], Unwrap(date[2])[1], Unwrap(Unwrap(date[2])[2])>>

\* piece is a number in decimal digits, padded with zeros to width digits:
\* exactly width digits when the number has no more than width digits
PaddedTo(piece, number, width) ==
    /\ \A n \in 1..Len(piece) : is_ascii_digit(piece[n])
    /\ Len(piece) >= width
    /\ number < 10 ^ width => Len(piece) = width
    /\ number >= 10 ^ width => piece[1] # Ascii0

IndexDocuments(T) ==
    Range(db.indices[T].committed)
        \cup {db.indices[T].pending[n].add : n \in 1..Len(db.indices[T].pending)}

\* C29: in every state reached from an empty store by saves that succeed
\* or fail partway, and by loads and queries, every document of a type's
\* search index and every entry of a secondary table has an identifier
\* that is present in that type's primary table; so no query fails with
\* the 'failed to find row' error.
C29_PrimaryAuthoritative ==
    /\ \A T \in RowTypes : \A doc \in IndexDocuments(T) :
          doc.id # None /\ ~Dangling(T, doc)
    /\ \A T \in RowTypes : \A n \in 1..Len(SECONDARY(T)) :
          DOMAIN db.sled[secondary_name(T, SECONDARY(T)[n])] \subseteq DOMAIN db.sled[TREE(T)]
    /\ last.op = "query" => last.res # Err("failed to find row")

\* a save of a borrowed Item failed at the commit of the index: its
\* document is queued, its blob is in the primary table, and a query for
\* its title succeeds without it
C29_Witness ==
    /\ last.op = "query" /\ last.T = "Item" /\ last.query = "b"
    /\ last.res = Ok(<<>>)
    /\ db.indices["Item"].committed = <<>>
    /\ Len(db.indices["Item"].pending) = 1
    /\ \E id \in db.indices["Item"].pending[1].add.id :
          tree_get(db.sled["item"], id_to_bytes(id)) = Some([title |-> "b", borrower |-> None])
    /\ DOMAIN db.sled["item-checkout"] = {}
    /\ calls.faults = 1

\* the calls that read: load, query, iter, next and dump
ReadOps == {"load", "query", "iter", "next", "dump"}

YieldedKeys(i) == {i.out[n].key : n \in 1..Len(i.out)}

\* C31: when saves are interleaved with the next() calls of one Iter, the
\* records the Iter yields have strictly increasing byte keys (no key is
\* yielded twice); and when the Iter has ended without an error, it has
\* yielded a record for every key that was in the table when it was
\* created.
C31_IterUnderSaves ==
    \A i \in it :
        /\ \A m \in 1..Len(i.out) : \A n \in 1..Len(i.out) :
              m < n => LexLess(i.out[m].key, i.out[n].key)
        /\ (i.ended /\ ~i.erred) => i.start \subseteq YieldedKeys(i)

\* an Iter was created over one Item; two Items were saved while it was
\* polled; it yielded the Item it started with and one of the new Items,
\* and ended without yielding the other
C31_Witness ==
    \E i \in it :
        /\ i.dirty /\ i.ended /\ ~i.erred
        /\ i.iter.T = "Item"
        /\ Cardinality(i.start) = 1
        /\ Len(i.out) = 2
        /\ i.out[1].key \in i.start
        /\ i.out[2].key \notin i.start
        /\ Cardinality(DOMAIN db.sled["item"]) = 3

\* C32: Ord::cmp of Item is a consistent total order: for all Items a and
\* b, a.cmp(b) is the reverse of b.cmp(a), also when one has authors and
\* the other has none; and cmp is transitive.
C32_ItemOrder ==
    last.op = "cmp" =>
        /\ last.ba = Ordering_reverse(last.ab)
        /\ (last.ab # "Greater" /\ last.bc # "Greater") => last.ac # "Greater"
        /\ (last.ab = "Less" /\ last.bc # "Greater") => last.ac = "Less"
        /\ (last.ab # "Greater" /\ last.bc = "Less") => last.ac = "Less"

====
